---- MODULE Spec2Model ----
(***************************************************************************)
(* Model of the Prompt-to-JSON generator (src/index.tsx): the form         *)
(* controls, the JSON projection shown to the user, and the "Enhance with  *)
(* AI" round trip.                                                         *)
(*                                                                         *)
(* A string is a sequence of tokens: a token is one white-space character  *)
(* (" ", "\n", "\t", "\r") or a maximal run of other characters, so that   *)
(* trim() and the value sanitisation of the controls are computed.         *)
(***************************************************************************)
EXTENDS Integers, Sequences, FiniteSets, TLC

\* ---------------------------------------------------------------- bounds
MaxEdits == 2
MaxRequests == 2

\* --------------------------------------------------------------- strings
W(word) == <<word>>

WhiteSpace == {" ", "\n", "\t", "\r"}
LineBreaks == {"\n", "\r"}

IsWhite(t) == t \in WhiteSpace
IsLineBreak(t) == t \in LineBreaks

RECURSIVE TrimStart(_)
TrimStart(s) ==
    IF s # <<>> /\ IsWhite(Head(s)) THEN TrimStart(Tail(s)) ELSE s

RECURSIVE TrimEnd(_)
TrimEnd(s) ==
    IF s # <<>> /\ IsWhite(s[Len(s)]) THEN TrimEnd(SubSeq(s, 1, Len(s) - 1)) ELSE s

\* String.prototype.trim
Trim(s) == TrimEnd(TrimStart(s))

\* value sanitisation of <input type="text">
StripNewlines(s) == SelectSeq(s, LAMBDA t : ~IsLineBreak(t))

Range(f) == {f[i] : i \in DOMAIN f}

\* --------------------------------------------------------- configuration
CONFIG_FIELDS ==
    [cameraMovement |->
        [label |-> "Camera Movement", type |-> "select",
         options |-> <<W("Static"), W("Pan"), W("Tilt"), W("Zoom"), W("Dolly"),
                       W("Handheld"), W("Crane"), W("Steadicam"), W("Drone")>>],
     lightingMode |->
        [label |-> "Lighting Mode", type |-> "select",
         options |-> <<W("Natural"), W("Studio"), W("Backlit"), W("Low-key"),
                       W("High-key"), W("Cinematic"), W("Ambient"),
                       <<"Hard", " ", "Light">> >>],
     mood |->
        [label |-> "Mood", type |-> "select",
         options |-> <<W("Cheerful"), W("Dramatic"), W("Calm"), W("Mysterious"),
                       W("Romantic"), W("Tense"), W("Nostalgic"), W("Epic")>>],
     colorPalette |->
        [label |-> "Color Palette", type |-> "select",
         options |-> <<W("Warm"), W("Cool"), W("Monochrome"), W("Pastel"),
                       W("Vibrant"), W("Muted"), W("Sepia"), W("Neon")>>],
     subjectFocus |->
        [label |-> "Subject Focus", type |-> "select",
         options |-> <<W("Face"), <<"Full", " ", "Body">>, W("Object"), W("Group"),
                       W("Macro"), <<"Wide", " ", "Shot">>, W("Close-up"),
                       <<"Medium", " ", "Shot">> >>],
     environmentalDetails |->
        [label |-> "Environmental Details", type |-> "text", options |-> <<>>],
     background |->
        [label |-> "Background", type |-> "text", options |-> <<>>]]

\* Object.entries(CONFIG_FIELDS): insertion order of the keys
RegistryOrder ==
    <<"cameraMovement", "lightingMode", "mood", "colorPalette", "subjectFocus",
      "environmentalDetails", "background">>

RegistryKeys == Range(RegistryOrder)

IdleLabel == "Enhance with AI"
LoadingLabel == "Enhancing..."

\* the properties every plain object inherits from Object.prototype
ObjectPrototypeMethods ==
    {"constructor", "hasOwnProperty", "isPrototypeOf", "propertyIsEnumerable",
     "toLocaleString", "toString", "valueOf"}

\* --------------------------------------------------------------- state
VARIABLES
    prompt,           \* dom.promptInput.value
    controls,         \* dom.configControls[key].value, key in the registry
    objectPrototype,  \* enumerable own properties of Object.prototype, <<key, string>>
    display,          \* the object serialised into dom.jsonOutput, <<key, string>> in order
    disabled,         \* dom.enhanceButton.disabled
    label,            \* dom.enhanceButton.textContent
    inflight,         \* generateContent calls not yet resumed
    reply,            \* the settled generateContent promise, <<>> while pending
    notice,           \* alert() raised by the last handler
    handled,          \* the reply the last handler consumed, <<>> for other handlers
    touched,          \* fields edited since the last request was issued
    edits,            \* input events so far
    requests          \* requests issued so far

vars == <<prompt, controls, objectPrototype, display, disabled, label, inflight,
          reply, notice, handled, touched, edits, requests>>

\* ------------------------------------------------------------ DOM values
\* the `value` setter of a control: a <select> selects the first option whose
\* value equals the string and reads back "" when there is none; a text
\* <input> strips line breaks
SetControlValue(key, s) ==
    IF CONFIG_FIELDS[key].type = "select"
    THEN IF s = <<>> \/ s \in Range(CONFIG_FIELDS[key].options) THEN s ELSE <<>>
    ELSE StripNewlines(s)

\* ------------------------------------------------------------ projection
\* keys visited by `for (const key in dom.configControls)`: the own keys in
\* insertion order, then the enumerable properties inherited from
\* Object.prototype
ForInKeys(proto) == RegistryOrder \o [i \in 1..Len(proto) |-> proto[i][1]]

InheritedValue(key, proto) ==
    LET i == CHOOSE j \in 1..Len(proto) : proto[j][1] = key IN proto[i][2]

\* dom.configControls[key].value for a key the for-in loop visits; for an
\* inherited string s, s.value is again Object.prototype.value
ControlValueOf(key, ctl, proto) ==
    IF key \in RegistryKeys THEN ctl[key] ELSE InheritedValue(key, proto)

\* the object generateAndDisplayJSON serialises, as its entries in order
Project(p, ctl, proto) ==
    LET promptValue == Trim(p)
        promptPart == IF promptValue # <<>> THEN << <<"prompt", promptValue>> >> ELSE <<>>
        keys == ForInKeys(proto)
        pairs == [i \in 1..Len(keys) |-> <<keys[i], Trim(ControlValueOf(keys[i], ctl, proto))>>]
    IN  promptPart \o SelectSeq(pairs, LAMBDA e : e[2] # <<>>)

\* ------------------------------------------------------ service replies
Str(s) == [type |-> "string", str |-> s, num |-> 0]
Num(n) == [type |-> "number", str |-> <<>>, num |-> n]

Rejected == [ok |-> FALSE, syntax |-> "none", entries |-> <<>>]
Malformed == [ok |-> TRUE, syntax |-> "malformed", entries |-> <<>>]
JsonNull == [ok |-> TRUE, syntax |-> "null", entries |-> <<>>]
JsonObject(es) == [ok |-> TRUE, syntax |-> "object", entries |-> es]

\* the mappings the service is taken to answer with
Mappings ==
    { <<>>,
      << <<"cameraMovement", Str(W("Pan"))>>, <<"mood", Num(7)>>, <<"unknownKey", Str(W("x"))>> >>,
      << <<"lightingMode", Str(W("Cinematic"))>>, <<"prompt", Str(W("x"))>> >>,
      << <<"mood", Str(W("Epic"))>>, <<"cameraMovement", Str(W("Drone"))>> >>,
      << <<"cameraMovement", Str(W("Sideways"))>> >>,
      << <<"environmentalDetails", Str(<<"fog", "\n", "city">>)>> >>,
      << <<"background", Str(<<" ", "market">>)>>, <<"subjectFocus", Str(<<"Full", " ", "Body">>)>> >>,
      << <<"colorPalette", Str(<<>>)>>, <<"constructor", Str(W("x"))>> >>,
      << <<"__proto__", Str(W("x"))>> >>,
      << <<"cameraMovement", Str(W("Pan"))>>, <<"value", Str(W("y"))>>, <<"mood", Str(W("Epic"))>> >> }

Replies == {Rejected, Malformed, JsonNull} \cup {JsonObject(es) : es \in Mappings}

\* ------------------------------------------------------------- the merge
\* dom.configControls[key]
Lookup(key, proto) ==
    IF key \in RegistryKeys THEN [kind |-> "control", str |-> <<>>]
    ELSE IF key = "__proto__" THEN [kind |-> "prototype", str |-> <<>>]
    ELSE IF key \in ObjectPrototypeMethods THEN [kind |-> "function", str |-> <<>>]
    ELSE IF \E i \in 1..Len(proto) : proto[i][1] = key
         THEN [kind |-> "string", str |-> InheritedValue(key, proto)]
    ELSE [kind |-> "undefined", str |-> <<>>]

Truthy(target) ==
    /\ target.kind # "undefined"
    /\ target.kind = "string" => target.str # <<>>

\* the loop over Object.entries(enhancedData); an assignment to a property of
\* a primitive string throws a TypeError in module (strict) code
RECURSIVE MergeEntries(_, _, _)
MergeEntries(entries, ctl, proto) ==
    IF entries = <<>>
    THEN [controls |-> ctl, objectPrototype |-> proto, threw |-> FALSE]
    ELSE LET key == Head(entries)[1]
             value == Head(entries)[2]
             target == Lookup(key, proto)
         IN  IF Truthy(target) /\ value.type = "string"
             THEN CASE target.kind = "control" ->
                         MergeEntries(Tail(entries),
                                      [ctl EXCEPT ![key] = SetControlValue(key, value.str)],
                                      proto)
                    [] target.kind = "prototype" ->
                         MergeEntries(Tail(entries), ctl, << <<"value", value.str>> >>)
                    [] target.kind = "function" ->
                         MergeEntries(Tail(entries), ctl, proto)
                    [] OTHER ->
                         [controls |-> ctl, objectPrototype |-> proto, threw |-> TRUE]
             ELSE MergeEntries(Tail(entries), ctl, proto)

TryBlockResetOnError(body, ctl, proto) ==
    IF ~body.ok \/ body.syntax \in {"malformed", "null"}
    THEN [controls |-> [k \in RegistryKeys |-> <<>>], objectPrototype |-> proto, threw |-> TRUE]
    ELSE MergeEntries(body.entries, ctl, proto)

\* the try block after the request was sent: the awaited call, JSON.parse and
\* the merge; threw says whether the catch block runs
TryBlock(body, ctl, proto) ==
    IF ~body.ok THEN [controls |-> ctl, objectPrototype |-> proto, threw |-> TRUE]
    ELSE IF body.syntax = "malformed"
         THEN [controls |-> ctl, objectPrototype |-> proto, threw |-> TRUE]
    ELSE IF body.syntax = "null"
         THEN [controls |-> ctl, objectPrototype |-> proto, threw |-> TRUE]
    ELSE MergeEntries(body.entries, ctl, proto)

\* ---------------------------------------------------------------- inputs
PromptInputs == {<<>>, <<" ">>, <<" ", "astronaut">>}
TextInputs == {<<>>, <<" ">>, <<"fog", " ">>}
SelectInputs(key) ==
    LET opts == CONFIG_FIELDS[key].options IN {<<>>, opts[Len(opts)]}

Fields == {"prompt"} \cup RegistryKeys

InputsOf(field) ==
    IF field = "prompt" THEN PromptInputs
    ELSE IF CONFIG_FIELDS[field].type = "select" THEN SelectInputs(field)
    ELSE TextInputs

FormValue(field) == IF field = "prompt" THEN prompt ELSE controls[field]

\* --------------------------------------------------------------- actions
Init ==
    /\ prompt = <<>>
    /\ controls = [k \in RegistryKeys |-> <<>>]
    /\ objectPrototype = <<>>
    /\ display = Project(<<>>, [k \in RegistryKeys |-> <<>>], <<>>)
    /\ disabled = FALSE
    /\ label = IdleLabel
    /\ inflight = 0
    /\ reply = <<>>
    /\ notice = "none"
    /\ handled = <<>>
    /\ touched = {}
    /\ edits = 0
    /\ requests = 0

InputEventNoRender(field, v) ==
    /\ edits < MaxEdits
    /\ v # FormValue(field)
    /\ prompt' = IF field = "prompt" THEN v ELSE prompt
    /\ controls' = IF field = "prompt" THEN controls ELSE [controls EXCEPT ![field] = v]
    /\ display' = IF field = "prompt" THEN Project(prompt', controls', objectPrototype) ELSE display
    /\ touched' = IF inflight > 0 THEN touched \cup {field} ELSE touched
    /\ edits' = edits + 1
    /\ notice' = "none"
    /\ handled' = <<>>
    /\ UNCHANGED <<objectPrototype, disabled, label, inflight, reply, requests>>

\* the user changes a field; the 'input' listener regenerates the JSON
InputEvent(field, v) ==
    /\ edits < MaxEdits
    /\ v # FormValue(field)
    /\ prompt' = IF field = "prompt" THEN v ELSE prompt
    /\ controls' = IF field = "prompt" THEN controls ELSE [controls EXCEPT ![field] = v]
    /\ display' = Project(prompt', controls', objectPrototype)
    /\ touched' = IF inflight > 0 THEN touched \cup {field} ELSE touched
    /\ edits' = edits + 1
    /\ notice' = "none"
    /\ handled' = <<>>
    /\ UNCHANGED <<objectPrototype, disabled, label, inflight, reply, requests>>

EnhanceClickNoValidation ==
    /\ ~disabled
    /\ requests < MaxRequests
    /\ disabled' = TRUE
    /\ label' = LoadingLabel
    /\ inflight' = inflight + 1
    /\ requests' = requests + 1
    /\ touched' = {}
    /\ notice' = "none"
    /\ handled' = <<>>
    /\ UNCHANGED <<prompt, controls, objectPrototype, display, reply, edits>>

EnhanceClickNoDisable ==
    /\ ~disabled
    /\ handled' = <<>>
    /\ IF Trim(prompt) = <<>>
       THEN /\ notice' = "validation"
            /\ UNCHANGED <<prompt, controls, objectPrototype, display, disabled,
                           label, inflight, reply, touched, edits, requests>>
       ELSE /\ requests < MaxRequests
            /\ label' = LoadingLabel
            /\ inflight' = inflight + 1
            /\ requests' = requests + 1
            /\ touched' = {}
            /\ notice' = "none"
            /\ UNCHANGED <<prompt, controls, objectPrototype, display, disabled, reply, edits>>

\* handleEnhanceClick up to the await; a disabled button dispatches no click
EnhanceClick ==
    /\ ~disabled
    /\ handled' = <<>>
    /\ IF Trim(prompt) = <<>>
       THEN /\ notice' = "validation"
            /\ UNCHANGED <<prompt, controls, objectPrototype, display, disabled,
                           label, inflight, reply, touched, edits, requests>>
       ELSE /\ requests < MaxRequests
            /\ disabled' = TRUE
            /\ label' = LoadingLabel
            /\ inflight' = inflight + 1
            /\ requests' = requests + 1
            /\ touched' = {}
            /\ notice' = "none"
            /\ UNCHANGED <<prompt, controls, objectPrototype, display, reply, edits>>

\* the generation service settles the pending call
ServiceRespond(body) ==
    /\ inflight > 0
    /\ reply = <<>>
    /\ reply' = <<body>>
    /\ UNCHANGED <<prompt, controls, objectPrototype, display, disabled, label,
                   inflight, notice, handled, touched, edits, requests>>

EnhanceResumeFinallyOnSuccess ==
    /\ reply # <<>>
    /\ LET r == TryBlock(reply[1], controls, objectPrototype)
       IN  /\ controls' = r.controls
           /\ objectPrototype' = r.objectPrototype
           /\ notice' = IF r.threw THEN "error" ELSE "none"
           /\ display' = IF r.threw THEN display
                         ELSE Project(prompt, r.controls, r.objectPrototype)
           /\ disabled' = IF r.threw THEN disabled ELSE FALSE
           /\ label' = IF r.threw THEN label ELSE IdleLabel
    /\ handled' = reply
    /\ reply' = <<>>
    /\ inflight' = inflight - 1
    /\ UNCHANGED <<prompt, touched, edits, requests>>

\* handleEnhanceClick from the await on: try, catch and finally
EnhanceResume ==
    /\ reply # <<>>
    /\ LET r == TryBlock(reply[1], controls, objectPrototype)
       IN  /\ controls' = r.controls
           /\ objectPrototype' = r.objectPrototype
           /\ notice' = IF r.threw THEN "error" ELSE "none"
           /\ display' = Project(prompt, r.controls, r.objectPrototype)
    /\ disabled' = FALSE
    /\ label' = IdleLabel
    /\ handled' = reply
    /\ reply' = <<>>
    /\ inflight' = inflight - 1
    /\ UNCHANGED <<prompt, touched, edits, requests>>

Next ==
    \/ \E field \in Fields : \E v \in InputsOf(field) : InputEvent(field, v)
    \/ EnhanceClick
    \/ \E body \in Replies : ServiceRespond(body)
    \/ EnhanceResume

Spec == Init /\ [][Next]_vars

\* ---------------------------------------------------------- vocabulary
\* the reply the last handler consumed parsed as a JSON mapping
HandledMapping == handled # <<>> /\ handled[1].ok /\ handled[1].syntax = "object"

\* the call failed or its body is not valid JSON
Failed(body) == ~body.ok \/ body.syntax = "malformed"

\* entries of a mapping whose key is a registry key and whose value is a string
StringEntries(body) ==
    {e \in Range(body.entries) : e[1] \in RegistryKeys /\ e[2].type = "string"}

DisplayKeys == [i \in 1..Len(display) |-> display[i][1]]

NonEmptyField(field) == Trim(FormValue(field)) # <<>>

\* ------------------------------------------------------------------ C1
\* C1: a click while the trimmed prompt is empty issues no request, changes
\* neither the prompt nor any attribute, raises the validation notice and
\* leaves no request in flight.
C1_EmptyPromptNoRequest ==
    [][(EnhanceClick /\ Trim(prompt) = <<>>)
         => /\ inflight' = 0 /\ reply' = <<>> /\ requests' = requests
            /\ prompt' = prompt /\ controls' = controls
            /\ notice' = "validation"
            /\ ~disabled']_vars

C1_Witness ==
    /\ notice = "validation"
    /\ prompt = <<" ">>
    /\ \E k \in RegistryKeys : controls[k] # <<>>
    /\ inflight = 0

\* ------------------------------------------------------------------ C2
\* C2: the merge of a response mapping changes FormState only at registry
\* keys that carry a string value in the response; every other entry is
\* ignored without error, and every other key keeps its value.
C2_MergeFrame ==
    [][(EnhanceResume /\ reply[1].ok /\ reply[1].syntax = "object")
         => /\ prompt' = prompt
            /\ \A k \in RegistryKeys :
                  controls'[k] # controls[k]
                     => \E e \in StringEntries(reply[1]) : e[1] = k
            /\ objectPrototype' = objectPrototype
            /\ notice' # "error"]_vars

\* ------------------------------------------------------------------ C3
\* C3: once the merge of a response mapping has run, every registry key that
\* the mapping gives a string holds exactly that string, select and text
\* attributes alike.
C3_MergedValueIsReturned ==
    HandledMapping
       => \A e \in StringEntries(handled[1]) : controls[e[1]] = e[2].str

\* ------------------------------------------------------------------ C4
\* C4: when the call fails or the body is not valid JSON, the error notice
\* is raised and the attempt writes nothing: prompt and attributes are as
\* they were when the reply arrived.
C4_FailureWritesNothing ==
    [][(EnhanceResume /\ Failed(reply[1]))
         => /\ notice' = "error"
            /\ prompt' = prompt
            /\ controls' = controls
            /\ objectPrototype' = objectPrototype]_vars

C4_Witness ==
    /\ handled # <<>> /\ Failed(handled[1])
    /\ notice = "error"
    /\ \E k \in RegistryKeys : controls[k] # <<>>

\* ------------------------------------------------------------------ C5
\* C5: the keys of the displayed document are exactly the keys among prompt
\* and the registry keys whose trimmed value is non-empty.
C5_DocumentKeys ==
    Range(DisplayKeys) = {f \in Fields : NonEmptyField(f)}

\* ------------------------------------------------------------------ C6
\* C6: the keys of the displayed document are, in this order, prompt (when
\* non-empty) and then the registry keys in registry order, empty ones
\* skipped.
C6_DocumentOrder ==
    DisplayKeys = SelectSeq(<<"prompt">> \o RegistryOrder, NonEmptyField)

\* ------------------------------------------------------------------ C7
\* C7: every attempt that issued a request ends, whatever the reply, with the
\* projection re-run and the button enabled with its idle label, and with no
\* request of its own left in flight.
C7_AlwaysRestored ==
    [][EnhanceResume
         => /\ ~disabled'
            /\ label' = IdleLabel
            /\ display' = Project(prompt', controls', objectPrototype')
            /\ inflight' = 0
            /\ reply' = <<>>]_vars

C7_Witness ==
    /\ handled # <<>> /\ ~handled[1].ok
    /\ notice = "error"
    /\ requests = 2
    /\ ~disabled /\ label = IdleLabel

\* ------------------------------------------------------------------ C8
\* C8: at most one request is in flight, and the button is disabled exactly
\* while one is.
C8_SingleFlight ==
    /\ inflight \in {0, 1}
    /\ disabled <=> inflight = 1
    /\ reply # <<>> => inflight = 1

C8_Witness ==
    /\ inflight = 1
    /\ disabled
    /\ requests = 2
    /\ touched # {}

\* ------------------------------------------------------------------ C9
\* C9: a field the user edited while the request was in flight and that the
\* response mapping gives a string holds the response's string after the
\* merge.
C9_LastWriterWins ==
    HandledMapping
       => \A e \in StringEntries(handled[1]) :
             e[1] \in touched => controls[e[1]] = e[2].str

\* ----------------------------------------------------------------- C10
\* C10: whenever no handler is running, the displayed document is the one
\* generateAndDisplayJSON computes from the current controls.
C10_DisplayFresh ==
    display = Project(prompt, controls, objectPrototype)

C10_Witness ==
    /\ HandledMapping
    /\ touched # {}
    /\ \E i \in 1..Len(display) : display[i][1] \in RegistryKeys /\ display[i][1] \notin touched
    /\ \E i \in 1..Len(display) : display[i][1] \in touched

====
